---- MODULE Spec2Model ----
(***************************************************************************)
(* A model of pyclowder/connectors.py: the per-message state machine       *)
(* Connector._process_message, the resource builder, the input stager and  *)
(* the RabbitMQ transport (RabbitMQConnector with its RabbitMQHandler).    *)
(*                                                                         *)
(* Strings that the code searches or rewrites (routing keys, host URLs,    *)
(* file paths) are sequences of tokens; dictionaries are functions whose   *)
(* DOMAIN is the set of keys present.  The code is Python 2: StandardError *)
(* is the base of the built-in errors, CalledProcessError derives from     *)
(* Exception directly, and BaseException.message is the single constructor *)
(* argument (sys.exit(1) gives a SystemExit whose message is the int 1).   *)
(***************************************************************************)
EXTENDS Integers, Sequences, FiniteSets, TLC

\* ------------------------------------------------------------------ bounds
\* Number of segments a routing key of the resource-builder check is made of.
MaxSegs == 3
\* Number of deliveries the broker hands to the connector in one run.
MaxDeliveries == 2
\* Number of file descriptors in a dataset's file list.
MaxFiles == 2

\* ------------------------------------------------------- program constants
\* connectors.py:411, "if retry_count < 10".
RetryLimit == 10

\* ------------------------------------------------------------- dictionaries
Has(d, k) == k \in DOMAIN d

\* dict.get(k, default)
Get(d, k, default) == IF k \in DOMAIN d THEN d[k] ELSE default

\* d[k] = v, adding or replacing the key
Put(d, k, v) == [x \in DOMAIN d \cup {k} |-> IF x = k THEN v ELSE d[x]]

\* -------------------------------------------------------------- strings
\* str.find(pat) > -1
Contains(s, pat) ==
    \E i \in 1..(Len(s) - Len(pat) + 1) : SubSeq(s, i, i + Len(pat) - 1) = pat

\* str.endswith(suf)
EndsWith(s, suf) ==
    /\ Len(suf) <= Len(s)
    /\ SubSeq(s, Len(s) - Len(suf) + 1, Len(s)) = suf

\* str.startswith(pre)
StartsWith(s, pre) ==
    /\ Len(pre) <= Len(s)
    /\ SubSeq(s, 1, Len(pre)) = pre

RECURSIVE Concat(_)
Concat(ss) == IF ss = <<>> THEN <<>> ELSE Head(ss) \o Concat(Tail(ss))

\* The resource variable before a resource is built, and the null resource.
NoResource == [type |-> "none", id |-> ""]

VARIABLES
    \* Connector (class attribute and constructor arguments)
    registered_clowder,   \* Connector.registered_clowder, a list of URLs
    posts,                \* the registration POSTs made in this process, in order
    extractor_info,       \* [name, process]: process is the key order of the dict
    callbacks,            \* what check_message and process_message are: "any"
                          \* extractor, or a "failing" one that always ends in IOError
    post_status,          \* what requests.post of the registration ends in, per host URL
    consumer_infos,       \* channel._consumer_infos is not empty: the consumer is registered
    hpc,                  \* the HPCConnector: its picklefile list and how far listen is
    \* one function applied to one input (SpecBuild, SpecMount, SpecResubmit, ...)
    probe,                \* <<>> or one record of the input and the result
    \* broker
    workQueue,            \* deliveries waiting in the queue <extractor name>
    errorQueue,           \* bodies published to error.<extractor name>
    resubmitted,          \* the retry_count of every body republished to the work queue
    unacked,              \* the delivery handed to the consumer and not yet acked
    deliveries,           \* number of on_message calls so far
    \* RabbitMQConnector
    worker,               \* self.worker: TRUE when a RabbitMQHandler is held
    ppc,                  \* position of the receive loop in listen
    \* RabbitMQHandler of the current delivery
    h_delivery,           \* method, header and body given to the constructor
    messages,             \* self.messages, the outbound queue
    finished,             \* self.finished
    \* the worker thread running _process_message
    pc,                   \* position of the thread
    frame,                \* its local variables
    todo,                 \* records the thread still appends before its next step
    \* host and file system
    disk,                 \* temporary files and directories that exist
    \* what happened for the current delivery
    log                   \* appended, handled, published, acks, calls, checked, ...

vars == <<registered_clowder, posts, extractor_info, callbacks, post_status, consumer_infos, hpc, probe,
          workQueue, errorQueue, resubmitted, unacked, deliveries, worker, ppc, h_delivery,
          messages, finished, pc, frame, todo, disk, log>>

\* ------------------------------------------------------ _build_resource
DatasetPat == <<".", "dataset", ".">>
FilePat == <<".", "file", ".">>
MetadataPat == <<"metadata", ".", "added">>

\* The loop of lines 146-150: every key of extractor_info['process'] overwrites
\* resource_type, so the key iterated last decides; no key leaves the default.
RECURSIVE ProcessDefault(_, _)
ProcessDefault(keys, acc) ==
    IF keys = <<>> THEN acc
    ELSE ProcessDefault(Tail(keys), IF Head(keys) = "dataset" THEN "dataset" ELSE "file")

ResourceTypeSwapped(message_type, info, fileid, datasetid) ==
    IF Contains(message_type, FilePat) THEN "file"
    ELSE IF Contains(message_type, DatasetPat) THEN "dataset"
    ELSE IF Contains(message_type, MetadataPat) THEN "metadata"
    ELSE IF message_type = <<"extractors", ".">> \o info.name
         THEN (IF datasetid = fileid THEN "dataset" ELSE "file")
    ELSE IF EndsWith(message_type, info.name) THEN ProcessDefault(info.process, "file")
    ELSE "file"

\* Lines 129-150: the if/elif chain that sets resource_type.
ResourceType(message_type, info, fileid, datasetid) ==
    IF Contains(message_type, DatasetPat) THEN "dataset"
    ELSE IF Contains(message_type, FilePat) THEN "file"
    ELSE IF Contains(message_type, MetadataPat) THEN "metadata"
    ELSE IF message_type = <<"extractors", ".">> \o info.name
         THEN (IF datasetid = fileid THEN "dataset" ELSE "file")
    ELSE IF EndsWith(message_type, info.name) THEN ProcessDefault(info.process, "file")
    ELSE "file"

\* ---------------------------------------------------- outbound records
\* RabbitMQHandler.status_update: the record appended to self.messages.
StatusRec(status, resource, message) ==
    [type |-> "status", status |-> status, file_id |-> resource["id"], message |-> message]

MessageOkFirst(resource) ==
    <<[type |-> "ok"], StatusRec("done", resource, "Done processing")>>

\* RabbitMQHandler.message_ok: Connector.message_ok sends the done status through
\* the overridden status_update, then the ok record is appended.
MessageOk(resource) ==
    <<StatusRec("done", resource, "Done processing"), [type |-> "ok"]>>

\* RabbitMQHandler.message_error
MessageError(resource) ==
    <<StatusRec("error", resource, "Error processing message"), [type |-> "error"]>>

\* RabbitMQHandler.message_resubmit
MessageResubmit(resource, retry_count) ==
    <<StatusRec("processing", resource, "Resubmitting message"),
      [type |-> "resubmit", retry_count |-> retry_count]>>

Terminals == {"ok", "error", "resubmit"}

\* ------------------------------------------------------ _build_resource
\* What the two host requests of the dataset branch do: both answer, or the
\* named one raises (the bare except of line 172 catches whatever it raises).
Fetches == {"ok", "get_info", "get_file_list"}

MetadataFields == {"resourceId", "resourceType", "metadata"}

DatasetResourceIdFromFile(body, fileid, datasetid) == fileid

\* Line 165: the id of a dataset resource.
DatasetResourceId(body, fileid, datasetid) == datasetid

\* Connector._build_resource.  The result says whether the call raised, the
\* resource type it settled on, the resource returned (outcome "null" for the
\* null resource), the records it appended and the host requests it made.
BuildResource(body, info, fetch) ==
    LET fileid == Get(body, "id", "")
        intermediatefileid == Get(body, "intermediateId", "")
        datasetid == Get(body, "datasetId", "")
    IN  IF ~Has(body, "routing_key")
        THEN [outcome |-> "raised", raised |-> "KeyError", resource_type |-> "file",
              resource |-> NoResource, emits |-> <<>>, calls |-> <<>>]
        ELSE
        LET resource_type == ResourceType(body["routing_key"], info, fileid, datasetid)
        IN  CASE resource_type = "dataset" ->
                 IF fetch = "ok"
                 THEN [outcome |-> "resource", raised |-> "none",
                       resource_type |-> resource_type,
                       resource |-> [type |-> "dataset",
                                     id |-> DatasetResourceId(body, fileid, datasetid),
                                     parent |-> ""],
                       emits |-> <<>>,
                       calls |-> <<"datasets.get_info", "datasets.get_file_list">>]
                 ELSE LET resource == [type |-> "dataset", id |-> datasetid]
                      IN  [outcome |-> "null", raised |-> "none",
                           resource_type |-> resource_type,
                           resource |-> NoResource,
                           emits |-> <<StatusRec("error", resource,
                                        "Error downloading dataset preprocess information.")>>
                                     \o MessageError(resource),
                           calls |-> IF fetch = "get_info"
                                     THEN <<"datasets.get_info">>
                                     ELSE <<"datasets.get_info", "datasets.get_file_list">>]
              [] resource_type = "file" ->
                 [outcome |-> "resource", raised |-> "none",
                  resource_type |-> resource_type,
                  resource |-> [type |-> "file", id |-> fileid,
                                intermediate_id |-> intermediatefileid,
                                parent |-> datasetid],
                  emits |-> <<>>, calls |-> <<>>]
              [] resource_type = "metadata" ->
                 IF MetadataFields \subseteq DOMAIN body
                 THEN [outcome |-> "resource", raised |-> "none",
                       resource_type |-> resource_type,
                       resource |-> [type |-> "metadata", id |-> body["resourceId"],
                                     parent |-> body["resourceId"]],
                       emits |-> <<>>, calls |-> <<>>]
                 ELSE [outcome |-> "raised", raised |-> "KeyError",
                       resource_type |-> resource_type,
                       resource |-> NoResource, emits |-> <<>>, calls |-> <<>>]

\* ---------------------------------------- the resource builder on its own
\* Routing keys are concatenations of at most MaxSegs of these segments.
Segments == {<<".", "dataset", ".">>, <<".", "file", ".">>, <<"metadata", ".", "added">>,
             <<"extractors", ".">>, <<"x">>, <<"q">>}

RECURSIVE SegSeqs(_)
SegSeqs(n) ==
    IF n = 0 THEN {<<>>}
    ELSE LET shorter == SegSeqs(n - 1)
         IN  shorter \cup {Append(s, g) : s \in {t \in shorter : Len(t) = n - 1}, g \in Segments}

RoutingKeys == {Concat(s) : s \in SegSeqs(MaxSegs)}

\* The orders in which iteritems can yield the keys of extractor_info['process'].
ProcessOrders == {<<>>, <<"file">>, <<"dataset">>, <<"file", "dataset">>, <<"dataset", "file">>}

ExtractorName == <<"x">>

\* The ids a probe body carries: each field absent or present.
IdChoices == {<<>>} \cup {<<"id", v>> : v \in {"a"}}
DatasetIdChoices == {<<>>} \cup {<<"datasetId", v>> : v \in {"a", "b"}}

WithField(d, choice) == IF choice = <<>> THEN d ELSE Put(d, choice[1], choice[2])

MetadataPart == [resourceId |-> "r", resourceType |-> "file", metadata |-> "m"]

BuildBodies ==
    {WithField(WithField(IF md THEN MetadataPart @@ [routing_key |-> k]
                               ELSE [routing_key |-> k], i), d) :
        k \in RoutingKeys, i \in IdChoices, d \in DatasetIdChoices, md \in BOOLEAN}

\* ------------------------------------------------------------ exceptions
\* What a callback or a host request can raise: the class of the exception as
\* the except clauses of lines 389-424 tell them apart, and whether its
\* .message is a string ("sys.exit : " + exc.message needs one).
FatalKinds == {"SystemExit", "KeyboardInterrupt", "GeneratorExit"}

NoExc == [kind |-> "none", strmsg |-> TRUE]

ExcValues ==
    {[kind |-> k, strmsg |-> TRUE] :
        k \in FatalKinds \cup {"StandardError", "CalledProcessError", "Exception",
                               "BaseException"}}
    \cup {[kind |-> k, strmsg |-> FALSE] : k \in {"SystemExit", "Exception"}}

RetryUnchanged(retry_count) == retry_count

RetryLimitInclusive(retry_count) == retry_count <= RetryLimit

\* Line 412: the count a transient error resubmits with.
NextRetry(retry_count) == retry_count + 1

\* Line 411: whether a transient error is resubmitted.
MayRetry(retry_count) == retry_count < RetryLimit

\* Lines 389-424: the except clauses of _process_message.  emits are the records
\* appended by the clause, escapes the exception that leaves _process_message.
HandleException(exc, resource, retry_count) ==
    CASE exc.kind = "SystemExit" ->
         IF exc.strmsg
         THEN [emits |-> <<StatusRec("error", resource, "sys.exit")>>
                         \o MessageResubmit(resource, retry_count),
               escapes |-> "SystemExit"]
         ELSE [emits |-> <<>>, escapes |-> "TypeError"]
      [] exc.kind = "KeyboardInterrupt" ->
         [emits |-> <<StatusRec("error", resource, "keyboard interrupt")>>
                   \o MessageResubmit(resource, retry_count),
          escapes |-> "KeyboardInterrupt"]
      [] exc.kind = "GeneratorExit" ->
         [emits |-> <<StatusRec("error", resource, "generator exit")>>
                   \o MessageResubmit(resource, retry_count),
          escapes |-> "GeneratorExit"]
      [] exc.kind = "StandardError" ->
         [emits |-> <<StatusRec("error", resource, "standard error")>>
                   \o (IF MayRetry(retry_count)
                       THEN MessageResubmit(resource, NextRetry(retry_count))
                       ELSE MessageError(resource)),
          escapes |-> "none"]
      [] exc.kind = "CalledProcessError" ->
         [emits |-> <<StatusRec("error", resource, "Error processing [exit code]")>>
                   \o MessageError(resource),
          escapes |-> "none"]
      [] exc.kind = "Exception" ->
         IF exc.strmsg
         THEN [emits |-> <<StatusRec("error", resource, "Error processing")>>
                         \o MessageError(resource),
               escapes |-> "none"]
         ELSE [emits |-> <<>>, escapes |-> "TypeError"]
      [] OTHER -> [emits |-> <<>>, escapes |-> exc.kind]

\* ------------------------------------------------- _check_for_local_file
\* Paths for which os.path.isfile is true.
LocalFiles == {<<"data", "/", "a">>}

\* self.mounted_paths, in the order the dictionary is iterated.
mounted_paths == <<[source |-> <<"mnt">>, local |-> <<"loc">>]>>

\* str.replace(old, new): every occurrence, left to right; old is not empty.
RECURSIVE Replace(_, _, _)
Replace(s, old, new) ==
    IF Len(s) < Len(old) THEN s
    ELSE IF SubSeq(s, 1, Len(old)) = old
         THEN new \o Replace(SubSeq(s, Len(old) + 1, Len(s)), old, new)
         ELSE <<Head(s)>> \o Replace(Tail(s), old, new)

\* Lines 217-220: the first mounted path the file path starts with.
RECURSIVE MountedLookup(_, _)
MountedLookup(file_path, mounts) ==
    IF mounts = <<>> THEN <<>>
    ELSE IF StartsWith(file_path, Head(mounts).source)
         THEN Replace(file_path, Head(mounts).source, Head(mounts).local)
         ELSE MountedLookup(file_path, Tail(mounts))

\* Connector._check_for_local_file; <<>> stands for None.
CheckForLocalFile(file_metadata) ==
    IF ~Has(file_metadata, "filepath") THEN <<>>
    ELSE LET file_path == file_metadata["filepath"]
         IN  IF file_path \in LocalFiles THEN file_path
             ELSE MountedLookup(file_path, mounted_paths)

\* The file descriptors a host lists for a dataset: one reachable through a
\* mounted path, one that is not local, one that has no filepath at all.
FileDescs ==
    {[id |-> "f2", filepath |-> <<"mnt", "/", "b">>],
     [id |-> "f3", filepath |-> <<"srv", "/", "c">>],
     [id |-> "f4"]}

\* The lists a host answers get_file_list with: at most MaxFiles descriptors,
\* none twice.
FileLists(n) ==
    {l \in UNION {[1..k -> FileDescs] : k \in 0..n} :
        \A i, j \in DOMAIN l : i < j => l[i] # l[j]}

\* The files of the list that resolve locally.
ResolvedLocally(files) == {i \in DOMAIN files : CheckForLocalFile(files[i]) # <<>>}

\* The answers of files.download_info for a file id: no filepath, or one that
\* is a local file, is under a mounted path, or is neither.
FileInfos(fileid) ==
    {[id |-> fileid]}
    \cup {[id |-> fileid, filepath |-> p] :
            p \in {<<"data", "/", "a">>, <<"mnt", "/", "b">>, <<"srv", "/", "c">>}}

\* ----------------------------------------------------------- input stager
\* Temporary paths: tempfile gives every call a fresh name.
DlFile(fileid) == <<"tmp", "file", fileid>>
MdDir(fileid) == <<"tmp", "mddir", fileid>>
MdFile(fileid) == <<"tmp", "md", fileid>>
DsMdDir(dsid) == <<"tmp", "dsmddir", dsid>>
DsMdFile(dsid) == <<"tmp", "dsmd", dsid>>
ZipFile(dsid) == <<"tmp", "zip", dsid>>
Unzipped(fileid) == <<"tmp", "unzip", fileid>>

\* The stager threads one record through its steps: the requests made so far,
\* the temporary paths created, and the exception raised (NoExc while none).
\* The failAt-th request raises exc; failAt = 0 lets every request answer.
StagerStart(failAt, exc) ==
    [calls |-> <<>>, created |-> {}, err |-> NoExc, failAt |-> failAt, exc |-> exc]

\* One request to the host (or one call of a pyclowder helper that can raise).
HostCall(st, op, id) ==
    IF Len(st.calls) + 1 = st.failAt
    THEN [st EXCEPT !.calls = Append(@, [op |-> op, id |-> id]), !.err = st.exc]
    ELSE [st EXCEPT !.calls = Append(@, [op |-> op, id |-> id])]

Failed(st) == st.err # NoExc

\* Connector._download_file_metadata: the metadata request, then mkdtemp, mkstemp.
DownloadFileMetadata(st, fileid) ==
    LET s1 == HostCall(st, "files.download_metadata", fileid)
    IN  IF Failed(s1) THEN s1
        ELSE [s1 EXCEPT !.created = @ \cup {MdDir(fileid), MdFile(fileid)}]

\* Lines 249-260 of _prepare_dataset.
RECURSIVE LocateLoop(_, _)
LocateLoop(files, acc) ==
    IF files = <<>> \/ Failed(acc.st) THEN acc
    ELSE LET ds_file == Head(files)
             file_path == CheckForLocalFile(ds_file)
         IN  IF file_path = <<>>
             THEN LocateLoop(Tail(files), [acc EXCEPT !.missing_files = Append(@, ds_file)])
             ELSE LET s1 == DownloadFileMetadata(acc.st, ds_file.id)
                  IN  IF Failed(s1) THEN [acc EXCEPT !.st = s1]
                      ELSE LocateLoop(Tail(files),
                               [acc EXCEPT !.st = s1,
                                           !.located_files = @ \o <<file_path, MdFile(ds_file.id)>>,
                                           !.tmp_files_created = Append(@, MdFile(ds_file.id)),
                                           !.tmp_dirs_created = Append(@, MdDir(ds_file.id))])

MissingLoopSkip(files, acc) == acc

\* Lines 264-275 of _prepare_dataset.  ds_file['filepath'] is read after the
\* download: a descriptor without it raises KeyError there.
RECURSIVE MissingLoop(_, _)
MissingLoop(files, acc) ==
    IF files = <<>> \/ Failed(acc.st) THEN acc
    ELSE LET ds_file == Head(files)
             s1 == HostCall(acc.st, "files.download", ds_file.id)
             s2 == [s1 EXCEPT !.created = @ \cup {DlFile(ds_file.id)}]
         IN  IF Failed(s1) THEN [acc EXCEPT !.st = s1]
             ELSE IF ~Has(ds_file, "filepath")
             THEN [acc EXCEPT !.st = [s2 EXCEPT !.err = [kind |-> "StandardError",
                                                         strmsg |-> TRUE]]]
             ELSE LET s3 == DownloadFileMetadata(s2, ds_file.id)
                  IN  IF Failed(s3) THEN [acc EXCEPT !.st = s3]
                      ELSE MissingLoop(Tail(files),
                               [acc EXCEPT !.st = s3,
                                           !.located_files = @ \o <<DlFile(ds_file.id),
                                                                    MdFile(ds_file.id)>>,
                                           !.tmp_files_created = @ \o <<DlFile(ds_file.id),
                                                                        MdFile(ds_file.id)>>,
                                           !.tmp_dirs_created = Append(@, MdDir(ds_file.id))])

\* Connector._prepare_dataset.  On a raise nothing is returned: the lists of
\* what was created are lost with the frame, the paths stay on disk.
PrepareDataset(resource, files, failAt, exc) ==
    LET s0 == HostCall(StagerStart(failAt, exc), "datasets.get_file_list", resource.id)
        a1 == LocateLoop(files, [st |-> s0, located_files |-> <<>>, missing_files |-> <<>>,
                                 tmp_files_created |-> <<>>, tmp_dirs_created |-> <<>>])
        raise(st) == [err |-> st.err, file_paths |-> <<>>, tmp_files |-> <<>>,
                      tmp_dirs |-> <<>>, created |-> st.created, calls |-> st.calls]
    IN  IF Failed(a1.st) THEN raise(a1.st)
        ELSE IF Len(a1.located_files) > 0
        THEN LET a2 == MissingLoop(a1.missing_files, a1)
                 s3 == HostCall(a2.st, "datasets.download_metadata", resource.id)
                 s4 == [s3 EXCEPT !.created = @ \cup {DsMdDir(resource.id),
                                                      DsMdFile(resource.id)}]
             IN  IF Failed(a2.st) THEN raise(a2.st)
                 ELSE IF Failed(s3) THEN raise(s3)
                 ELSE [err |-> NoExc,
                       file_paths |-> Append(a2.located_files, DsMdFile(resource.id)),
                       tmp_files |-> Append(a2.tmp_files_created, DsMdFile(resource.id)),
                       tmp_dirs |-> Append(a2.tmp_dirs_created, DsMdDir(resource.id)),
                       created |-> s4.created, calls |-> s4.calls]
        ELSE LET z1 == HostCall(a1.st, "datasets.download", resource.id)
                 z2 == [z1 EXCEPT !.created = @ \cup {ZipFile(resource.id)}]
                 z3 == HostCall(z2, "utils.extract_zip_contents", resource.id)
                 file_paths == [i \in 1..Len(files) |-> Unzipped(files[i].id)]
                 z4 == [z3 EXCEPT !.created = @ \cup {file_paths[i] : i \in 1..Len(files)}]
             IN  IF Failed(z1) THEN raise(z1)
                 ELSE IF Failed(z3) THEN raise(z3)
                 ELSE [err |-> NoExc,
                       file_paths |-> file_paths,
                       tmp_files |-> Append(file_paths, ZipFile(resource.id)),
                       tmp_dirs |-> <<>>,
                       created |-> z4.created, calls |-> z4.calls]

\* Lines 345-353: staging of a file resource.  file_path stays <<>> (None)
\* until the download has returned.
StageFile(resource, file_metadata, failAt, exc) ==
    LET s1 == HostCall(StagerStart(failAt, exc), "files.download_info", resource.id)
        local == CheckForLocalFile(file_metadata)
        s2 == HostCall(s1, "files.download", resource.id)
        s3 == [s2 EXCEPT !.created = @ \cup {DlFile(resource.id)}]
        raise(st) == [err |-> st.err, file_path |-> <<>>, found_local |-> FALSE,
                      created |-> st.created, calls |-> st.calls]
    IN  IF Failed(s1) THEN raise(s1)
        ELSE IF local # <<>>
        THEN [err |-> NoExc, file_path |-> local, found_local |-> TRUE,
              created |-> s1.created, calls |-> s1.calls]
        ELSE IF Failed(s2) THEN raise(s2)
        ELSE [err |-> NoExc, file_path |-> DlFile(resource.id), found_local |-> FALSE,
              created |-> s3.created, calls |-> s3.calls]

Range(s) == {s[i] : i \in DOMAIN s}

FileRemovalsAlways(file_path, found_local) ==
    IF file_path # <<>> THEN {file_path} ELSE {}

\* Lines 357-359: the paths the finally clause of the file branch hands to
\* os.remove.
FileRemovals(file_path, found_local) ==
    IF file_path # <<>> /\ ~found_local THEN {file_path} ELSE {}

\* Lines 373-382: the paths the finally clause of the dataset and metadata
\* branch hands to os.remove and os.rmdir.
DatasetRemovals(tmp_files, tmp_dirs) == Range(tmp_files) \cup Range(tmp_dirs)

\* Lines 356-361: the finally clause of the file branch.
CleanupFile(files, file_path, found_local) ==
    files \ FileRemovals(file_path, found_local)

\* Lines 372-382: the finally clause of the dataset and metadata branch.
CleanupDataset(files, tmp_files, tmp_dirs) ==
    files \ DatasetRemovals(tmp_files, tmp_dirs)

\* What requests.post and raise_for_status of lines 446-449 end in.
PostResults == {"ok", "ConnectionError", "HTTPError"}

\* The registration URLs of the hosts of the model, and every host answering.
RegistrationUrls == {<<"h", "/", "api/extractors">>, <<"g", "/", "api/extractors">>}

Reachable == [u \in RegistrationUrls |-> "ok"]

\* The url of line 321 from the endpoint "<url>?key=<secret_key>".
HostUrl(endpoint) == SubSeq(endpoint, 1, Len(endpoint) - 2)

PostResult(endpoint) ==
    IF HostUrl(endpoint) \in DOMAIN post_status THEN post_status[HostUrl(endpoint)] ELSE "ok"

PostEscapes(result) == IF result = "ok" THEN "none" ELSE result

\* Lines 450-452: "except Exception" logs whatever the POST raised.
PostRaises(result) == "none"

\* ------------------------------------------------------------ registration
\* Connector.register_extractor with one endpoint: the URL is added to the
\* list and POSTed unless it is in the list already.  posted lists the POSTs.
\* Lines 426-452.  The keys of the model hold no comma, so endpoints.split(',')
\* yields the one url.
RegisterExtractor(registered, endpoint) ==
    IF endpoint = <<>> \/ endpoint \in Range(registered)
    THEN [registered |-> registered, posted |-> <<>>, raised |-> "none"]
    ELSE [registered |-> Append(registered, endpoint), posted |-> <<endpoint>>,
          raised |-> PostRaises(PostResult(endpoint))]

RegisterAlways(registered, host, secret_key) ==
    RegisterExtractor(registered, host \o <<"api/extractors", "?key=", secret_key>>)

\* Lines 321-325 of _process_message.
Register(registered, host, secret_key) ==
    LET url == host \o <<"api/extractors">>
    IN  IF url \notin Range(registered)
        THEN RegisterExtractor(Append(registered, url), url \o <<"?key=", secret_key>>)
        ELSE [registered |-> registered, posted |-> <<>>, raised |-> "none"]

\* ------------------------------------------------------------------ inputs
FileKey == <<"clowder", ".", "file", ".", "added">>
DatasetKey == <<"clowder", ".", "dataset", ".", "file", ".", "added">>
MetadataKey == <<"clowder", ".", "metadata", ".", "added">>

\* A delivery as the broker hands it to on_message: the method's routing key
\* and exchange, the header's reply_to, and the decoded body.
Delivery(body, routing_key) ==
    [body |-> body, routing_key |-> routing_key, exchange |-> <<"clowder">>,
     reply_to |-> <<"reply">>, correlation_id |-> "c1"]

BaseBody == [id |-> "f1", intermediateId |-> "f1", datasetId |-> "d1", secretKey |-> "k1"]

WithHost(body, host) == Put(body, "host", host)

WithRetry(body, rc) == Put(body, "retry_count", rc)

InitialRetryCounts == {0, RetryLimit - 1, RetryLimit}

\* One message of each resource kind (the metadata one with and without its
\* fields), file messages at and just below the retry limit, messages without
\* a host, and one that has no routing key at all.
InitialDeliveries ==
    {Delivery(WithHost(BaseBody, <<"h", "/">>), k) : k \in {FileKey, DatasetKey, MetadataKey}}
    \cup {Delivery(WithHost(BaseBody @@ MetadataPart, <<"h", "/">>), MetadataKey)}
    \cup {Delivery(WithRetry(WithHost(BaseBody, <<"h", "/">>), rc), FileKey) :
            rc \in InitialRetryCounts}
    \cup {Delivery(WithHost(BaseBody, <<>>), FileKey), Delivery(BaseBody, FileKey),
          Delivery(WithHost(BaseBody, <<"h", "/">>), <<>>)}

\* Messages that differ in how the host is written, in the host and in the key.
RegistrationDeliveries ==
    {Delivery(WithHost(Put(BaseBody, "secretKey", "k1"), <<"h">>), FileKey),
     Delivery(WithHost(Put(BaseBody, "secretKey", "k2"), <<"h", "/">>), FileKey),
     Delivery(WithHost(Put(BaseBody, "secretKey", "k1"), <<"g", "/">>), FileKey)}

\* A message of a registered host followed by one without a host.
HostlessSecond ==
    <<Delivery(WithHost(BaseBody, <<"h">>), FileKey), Delivery(BaseBody, FileKey)>>

InitialQueues ==
    {<<d>> : d \in InitialDeliveries}
    \cup {q \in [1..2 -> RegistrationDeliveries] : q[1] # q[2]}
    \cup {HostlessSecond}

EmptyLog ==
    [appended |-> <<>>, handled |-> <<>>, published |-> <<>>, channel |-> <<>>, acks |-> 0,
     calls |-> <<>>, checked |-> 0, processed |-> <<>>, stagings |-> 0, temps |-> 0,
     resolved |-> {}, removed |-> {}, popped_empty |-> FALSE]

NewFrame(json_body) ==
    [body |-> json_body, host |-> <<>>, secret_key |-> "", retry_count |-> 0,
     resource |-> NoResource, check_result |-> "none", file_path |-> <<>>,
     found_local |-> FALSE, tmp_files |-> <<>>, tmp_dirs |-> <<>>,
     raised |-> NoExc, escaped |-> "none"]

NoDelivery == Delivery(<<>>, <<>>)

\* No HPCConnector is listening.
NoBatch == [picklefile |-> <<>>, at |-> "returned", logfile |-> <<>>, loaded |-> <<>>,
            processed |-> <<>>, raised |-> "none"]

InitCommon ==
    /\ registered_clowder = <<>>
    /\ posts = <<>>
    /\ errorQueue = <<>>
    /\ resubmitted = <<>>
    /\ unacked = <<>>
    /\ deliveries = 0
    /\ worker = FALSE
    /\ ppc = "events"
    /\ consumer_infos = TRUE
    /\ h_delivery = NoDelivery
    /\ messages = <<>>
    /\ finished = FALSE
    /\ pc = "none"
    /\ frame = NewFrame(<<>>)
    /\ todo = <<>>
    /\ disk = {}
    /\ log = EmptyLog

Init ==
    /\ InitCommon
    /\ hpc = NoBatch
    /\ extractor_info = [name |-> ExtractorName, process |-> <<"dataset", "file">>]
    /\ callbacks = "any"
    /\ post_status = Reachable
    /\ probe = <<>>
    /\ workQueue \in InitialQueues

\* ------------------------------------------------- the callbacks' outcomes
StdError == [kind |-> "StandardError", strmsg |-> TRUE]

Returns(value) == [ret |-> value, exc |-> NoExc]
Raises(exc) == [ret |-> "raise", exc |-> exc]

\* What check_message does: the value it returns, or the exception it raises.
CheckOutcomes ==
    IF callbacks = "any"
    THEN {Returns(r) : r \in {"download", "bypass", "ignore"}} \cup {Raises(e) : e \in ExcValues}
    ELSE {Returns("download"), Returns("bypass"), Raises(StdError)}

\* What a request of the stager can raise: the errors of the requests library
\* are IOErrors (StandardError), and the user can interrupt it.
StageExcs ==
    IF callbacks = "any"
    THEN {StdError, [kind |-> "KeyboardInterrupt", strmsg |-> TRUE]}
    ELSE {StdError}

\* What process_message does.
ProcessOutcomes ==
    IF callbacks = "any"
    THEN {Returns("return")} \cup {Raises(e) : e \in ExcValues}
    ELSE {Raises(StdError)}

\* ------------------------------------------------------ the worker thread
\* The thread appends the records of todo one by one (each append holds the
\* lock); every other step waits until todo is empty.
Emit(records) == todo' = records

Logged(field, value) == log' = [log EXCEPT ![field] = value]

\* with self.lock: self.messages.append(...)
W_Append ==
    /\ pc \notin {"none", "exited"}
    /\ todo # <<>>
    /\ messages' = Append(messages, Head(todo))
    /\ todo' = Tail(todo)
    /\ Logged("appended", Append(log.appended, Head(todo)))
    /\ UNCHANGED <<registered_clowder, posts, extractor_info, callbacks, post_status, consumer_infos, hpc, probe, workQueue,
                   errorQueue, resubmitted, unacked, deliveries, worker, ppc, h_delivery,
                   finished, pc, frame, disk>>

HostGuardOff(host) == FALSE

\* Line 311: if host is None or host == ''.
HostIsEmpty(host) == host = <<>>

ResourceNeverNull(outcome) == FALSE

\* Line 318: "if not resource".
ResourceIsNull(outcome) == outcome = "null"

\* Lines 310-319: the host check and _build_resource.
W_Start ==
    /\ pc = "start"
    /\ todo = <<>>
    /\ LET host == Get(frame.body, "host", <<>>) IN
       IF HostIsEmpty(host)
       THEN /\ pc' = "exited"
            /\ UNCHANGED <<frame, todo, log>>
       ELSE \E fetch \in Fetches :
            LET built == BuildResource(frame.body, extractor_info, fetch)
                f1 == [frame EXCEPT
                          !.host = IF EndsWith(host, <<"/">>) THEN host ELSE Append(host, "/"),
                          !.secret_key = Get(frame.body, "secretKey", ""),
                          !.retry_count = Get(frame.body, "retry_count", 0),
                          !.resource = built.resource]
            IN  /\ Logged("calls", log.calls \o built.calls)
                /\ Emit(built.emits)
                /\ CASE built.outcome = "raised" ->
                        /\ frame' = [f1 EXCEPT !.escaped = built.raised]
                        /\ pc' = "return"
                     [] ResourceIsNull(built.outcome) ->
                        /\ frame' = f1
                        /\ pc' = "return"
                     [] OTHER ->
                        /\ frame' = f1
                        /\ pc' = "register"
    /\ UNCHANGED <<registered_clowder, posts, extractor_info, callbacks, post_status, consumer_infos, hpc, probe, workQueue,
                   errorQueue, resubmitted, unacked, deliveries, worker, ppc, h_delivery,
                   messages, finished, disk>>

\* Lines 321-328: registration, then the start status.
W_Register ==
    /\ pc = "register"
    /\ todo = <<>>
    /\ LET r == Register(registered_clowder, frame.host, frame.secret_key)
       IN  /\ registered_clowder' = r.registered
           /\ posts' = posts \o r.posted
           /\ IF r.raised # "none"
              THEN /\ frame' = [frame EXCEPT !.escaped = r.raised]
                   /\ Emit(<<>>)
                   /\ pc' = "return"
              ELSE /\ frame' = frame
                   /\ Emit(<<StatusRec("start", frame.resource, "Started processing")>>)
                   /\ pc' = "check"
    /\ UNCHANGED <<extractor_info, callbacks, post_status, consumer_infos, hpc, probe,
                   workQueue, errorQueue, resubmitted, unacked, deliveries, worker, ppc,
                   h_delivery, messages, finished, disk, log>>

\* An exception raised inside the try of line 332 reaches the except clauses.
Caught(fr, exc) ==
    LET h == HandleException(exc, fr.resource, fr.retry_count)
    IN  /\ frame' = [fr EXCEPT !.raised = exc, !.escaped = h.escapes]
        /\ Emit(h.emits)
        /\ pc' = "return"

SkipsNever(check_result) == FALSE

\* Line 336: "if check_result != CheckMessage.ignore" fails.
SkipsProcessing(check_result) == check_result = "ignore"

\* Lines 333-336 and 384-387: check_message and the ignore branch.
W_Check ==
    /\ pc = "check"
    /\ todo = <<>>
    /\ \E o \in CheckOutcomes :
          CASE o.ret = "raise" -> Caught(frame, o.exc)
            [] SkipsProcessing(o.ret) ->
               /\ frame' = [frame EXCEPT !.check_result = o.ret]
               /\ Emit(<<StatusRec("processing", frame.resource, "Skipped in check_message")>>
                       \o MessageOk(frame.resource))
               /\ pc' = "return"
            [] OTHER ->
               /\ frame' = [frame EXCEPT !.check_result = o.ret]
               /\ Emit(<<>>)
               /\ pc' = "stage"
    /\ Logged("checked", log.checked + 1)
    /\ UNCHANGED <<registered_clowder, posts, extractor_info, callbacks, post_status, consumer_infos, hpc, probe, workQueue,
                   errorQueue, resubmitted, unacked, deliveries, worker, ppc, h_delivery,
                   messages, finished, disk>>

\* Which request of the stager raises, and what: none, or the at-th one.
FailChoices(n) ==
    {[at |-> 0, exc |-> NoExc]} \cup {[at |-> k, exc |-> e] : k \in 1..n, e \in StageExcs}

\* The most requests one staging makes: the file list, a download and a
\* metadata document per file, and the dataset's metadata.
MaxRequests == 2 * MaxFiles + 2

\* The stager has returned or raised: what it created is on disk, what it
\* requested is logged.
Staged(r, resolved) ==
    /\ disk' = disk \cup r.created
    /\ log' = [log EXCEPT !.calls = @ \o r.calls, !.stagings = @ + 1,
                           !.temps = @ + Cardinality(r.created),
                           !.resolved = IF Failed(r) THEN @ ELSE @ \cup resolved]

\* Lines 340-353 and 365-369: the InputStager, up to the call of process_message.
\* When it raises, the finally clause runs with the frame as it is and removes
\* nothing: file_path is still None, tmp_files and tmp_dirs are still empty.
W_Stage ==
    /\ pc = "stage"
    /\ todo = <<>>
    /\ IF frame.check_result = "bypass"
       THEN /\ frame' = [frame EXCEPT !.resource =
                            IF frame.resource.type = "file" THEN @
                            ELSE Put(@, "local_paths", <<>>)]
            /\ Emit(<<>>)
            /\ pc' = "process"
            /\ UNCHANGED <<disk, log>>
       ELSE IF frame.resource.type = "file"
       THEN \E file_metadata \in FileInfos(frame.resource.id), c \in FailChoices(2) :
               LET r == StageFile(frame.resource, file_metadata, c.at, c.exc)
               IN  /\ Staged(r, IF r.found_local THEN {r.file_path} ELSE {})
                   /\ IF Failed(r)
                      THEN Caught(frame, r.err)
                      ELSE /\ frame' = [frame EXCEPT
                                           !.file_path = r.file_path,
                                           !.found_local = r.found_local,
                                           !.resource = Put(@, "local_paths", <<r.file_path>>)]
                           /\ Emit(<<>>)
                           /\ pc' = "process"
       ELSE \E files \in FileLists(MaxFiles), c \in FailChoices(MaxRequests) :
               LET r == PrepareDataset(frame.resource, files, c.at, c.exc)
               IN  /\ Staged(r, {CheckForLocalFile(files[i]) : i \in ResolvedLocally(files)})
                   /\ IF Failed(r)
                      THEN Caught(frame, r.err)
                      ELSE /\ frame' = [frame EXCEPT
                                           !.tmp_files = r.tmp_files,
                                           !.tmp_dirs = r.tmp_dirs,
                                           !.resource = Put(@, "local_paths", r.file_paths)]
                           /\ Emit(<<>>)
                           /\ pc' = "process"
    /\ UNCHANGED <<registered_clowder, posts, extractor_info, callbacks, post_status, consumer_infos, hpc, probe, workQueue,
                   errorQueue, resubmitted, unacked, deliveries, worker, ppc, h_delivery,
                   messages, finished>>

\* Lines 355-361 and 371-387: process_message, the finally clause that removes
\* what the stager returned (its locals are dead afterwards and are cleared),
\* then message_ok or the except clauses.
W_Process ==
    /\ pc = "process"
    /\ todo = <<>>
    /\ disk' = IF frame.resource.type = "file"
               THEN CleanupFile(disk, frame.file_path, frame.found_local)
               ELSE CleanupDataset(disk, frame.tmp_files, frame.tmp_dirs)
    /\ log' = [log EXCEPT
                 !.processed = Append(@, frame.resource),
                 !.removed = @ \cup
                     (IF frame.resource.type = "file"
                      THEN FileRemovals(frame.file_path, frame.found_local)
                      ELSE DatasetRemovals(frame.tmp_files, frame.tmp_dirs))]
    /\ LET done == [frame EXCEPT !.file_path = <<>>, !.found_local = FALSE,
                                 !.tmp_files = <<>>, !.tmp_dirs = <<>>]
       IN  \E o \in ProcessOutcomes :
              IF o.ret = "raise"
              THEN Caught(done, o.exc)
              ELSE /\ Emit(MessageOk(frame.resource))
                   /\ pc' = "return"
                   /\ frame' = done
    /\ UNCHANGED <<registered_clowder, posts, extractor_info, callbacks, post_status, consumer_infos, hpc, probe, workQueue,
                   errorQueue, resubmitted, unacked, deliveries, worker, ppc, h_delivery,
                   messages, finished>>

\* _process_message returns or raises: the thread ends.
W_Return ==
    /\ pc = "return"
    /\ todo = <<>>
    /\ pc' = "exited"
    /\ UNCHANGED <<registered_clowder, posts, extractor_info, callbacks, post_status, consumer_infos, hpc, probe, workQueue,
                   errorQueue, resubmitted, unacked, deliveries, worker, ppc, h_delivery,
                   messages, finished, frame, todo, disk, log>>

\* ----------------------------------------------------- the receive loop
\* RabbitMQConnector.on_message: the body is decoded, the delivery's routing
\* key is put into the decoded copy when the body has none, and a new
\* RabbitMQHandler with its thread replaces self.worker.
OnMessage(d) ==
    LET json_body == IF ~Has(d.body, "routing_key") /\ d.routing_key # <<>>
                     THEN Put(d.body, "routing_key", d.routing_key)
                     ELSE d.body
    IN  /\ worker' = TRUE
        /\ h_delivery' = d
        /\ messages' = <<>>
        /\ finished' = FALSE
        /\ pc' = "start"
        /\ frame' = NewFrame(json_body)
        /\ todo' = <<>>
        /\ log' = EmptyLog

PrefetchUnlimited(outstanding) == TRUE

\* Line 576: basic_qos(prefetch_count=1), fewer than one delivery outstanding.
PrefetchAllows(outstanding) == Len(outstanding) < 1

\* The broker hands over the head of the work queue: prefetch_count=1 (line
\* 576) allows it only while no delivery is unacknowledged.
CanDeliver ==
    /\ workQueue # <<>>
    /\ consumer_infos
    /\ PrefetchAllows(unacked)
    /\ (deliveries < MaxDeliveries \/ callbacks = "failing")

\* Line 619: "while self.channel and self.channel._consumer_infos"; when it
\* fails the finally clause of lines 633-648 is next.
LoopTop == IF consumer_infos THEN "events" ELSE "closing"

\* Line 620: process_data_events, which calls on_message when a delivery has
\* arrived; then line 621, "if self.worker".
P_Events ==
    /\ ppc = "events"
    /\ \E arrives \in BOOLEAN :
          IF arrives /\ CanDeliver
          THEN /\ OnMessage(Head(workQueue))
               /\ workQueue' = Tail(workQueue)
               /\ unacked' = <<Head(workQueue)>>
               /\ deliveries' = deliveries + 1
               /\ ppc' = "loop"
          ELSE /\ ppc' = IF worker THEN "loop" ELSE LoopTop
               /\ UNCHANGED <<workQueue, unacked, deliveries, worker, h_delivery, messages,
                              finished, pc, frame, todo, log>>
    /\ UNCHANGED <<registered_clowder, posts, extractor_info, callbacks, post_status, consumer_infos, hpc, probe, errorQueue,
                   resubmitted, disk>>

LoopAlways(queue) == TRUE

\* Line 711: "while self.messages", read without the lock.
LoopCondition(queue) == queue # <<>>

P_Loop ==
    /\ ppc = "loop"
    /\ ppc' = IF LoopCondition(messages) THEN "pop" ELSE "fin"
    /\ UNCHANGED <<registered_clowder, posts, extractor_info, callbacks, post_status, consumer_infos, hpc, probe, workQueue,
                   errorQueue, resubmitted, unacked, deliveries, worker, h_delivery, messages,
                   finished, pc, frame, todo, disk, log>>

PopLast(queue) == [msg |-> queue[Len(queue)], rest |-> SubSeq(queue, 1, Len(queue) - 1)]

\* Line 713: self.messages.pop(0).
Pop(queue) == [msg |-> Head(queue), rest |-> Tail(queue)]

ResubmitBodyAlwaysKey(d, retry_count, queue) ==
    LET b1 == Put(d.body, "retry_count", retry_count)
        b2 == IF ~Has(b1, "exchange") /\ d.exchange # <<>>
              THEN Put(b1, "exchange", d.exchange) ELSE b1
    IN  IF ~Has(b2, "routing_key") /\ d.routing_key # <<>>
        THEN Put(b2, "routing_key", d.routing_key) ELSE b2

\* Lines 739-747: the body a resubmit publishes.
ResubmitBody(d, retry_count, queue) ==
    LET b1 == Put(d.body, "retry_count", retry_count)
        b2 == IF ~Has(b1, "exchange") /\ d.exchange # <<>>
              THEN Put(b1, "exchange", d.exchange) ELSE b1
    IN  IF ~Has(b2, "routing_key") /\ d.routing_key # <<>> /\ d.routing_key # queue
        THEN Put(b2, "routing_key", d.routing_key) ELSE b2

ChannelOpsAckFirst(msg_type, reply_to) ==
    CASE msg_type = "status" -> IF reply_to # <<>> THEN <<"basic_publish">> ELSE <<>>
      [] msg_type = "ok" -> <<"basic_ack">>
      [] OTHER -> <<"basic_ack", "basic_publish">>

\* Lines 715-754: the calls on the channel a record leads to, in their order.
ChannelOps(msg_type, reply_to) ==
    CASE msg_type = "status" -> IF reply_to # <<>> THEN <<"basic_publish">> ELSE <<>>
      [] msg_type = "ok" -> <<"basic_ack">>
      [] OTHER -> <<"basic_publish", "basic_ack">>

StatusPublishAlways(msg, header) ==
    <<[queue |-> header.reply_to, correlation_id |-> header.correlation_id, body |-> msg]>>

\* Lines 716-721: the status is published to the queue the header's reply_to
\* names, with the header's correlation_id, when the header has a reply_to.
StatusPublish(msg, header) ==
    IF header.reply_to # <<>>
    THEN <<[queue |-> header.reply_to, correlation_id |-> header.correlation_id,
            body |-> msg]>>
    ELSE <<>>

\* basic_ack(delivery_tag)
Ack ==
    /\ unacked' = <<>>
    /\ finished' = TRUE

\* Lines 712-757: one round of the loop of process_messages: the pop under the
\* lock, then what the record asks of the channel.  A pop from an empty list
\* raises IndexError, which ends the loop of listen (line 631).
P_Pop ==
    /\ ppc = "pop"
    /\ IF messages = <<>>
       THEN /\ ppc' = "stopped"
            /\ Logged("popped_empty", TRUE)
            /\ UNCHANGED <<workQueue, errorQueue, resubmitted, unacked, messages, finished>>
       ELSE LET p == Pop(messages)
                msg == p.msg
                queue == extractor_info.name
            IN  /\ messages' = p.rest
                /\ ppc' = "loop"
                /\ CASE msg.type = "status" ->
                        /\ log' = [log EXCEPT
                                     !.handled = Append(@, msg),
                                     !.channel = @ \o ChannelOps(msg.type, h_delivery.reply_to),
                                     !.published = @ \o StatusPublish(msg, h_delivery)]
                        /\ UNCHANGED <<workQueue, errorQueue, resubmitted, unacked, finished>>
                     [] msg.type = "ok" ->
                        /\ log' = [log EXCEPT
                                     !.handled = Append(@, msg),
                                     !.channel = @ \o ChannelOps(msg.type, h_delivery.reply_to),
                                     !.acks = @ + 1]
                        /\ Ack
                        /\ UNCHANGED <<workQueue, errorQueue, resubmitted>>
                     [] msg.type = "error" ->
                        /\ log' = [log EXCEPT
                                     !.handled = Append(@, msg),
                                     !.channel = @ \o ChannelOps(msg.type, h_delivery.reply_to),
                                     !.acks = @ + 1,
                                     !.published = Append(@, [queue |-> <<"error", ".">> \o queue,
                                                              body |-> h_delivery.body])]
                        /\ errorQueue' = Append(errorQueue, h_delivery.body)
                        /\ Ack
                        /\ UNCHANGED <<workQueue, resubmitted>>
                     [] msg.type = "resubmit" ->
                        LET jbody == ResubmitBody(h_delivery, msg.retry_count, queue)
                        IN  /\ log' = [log EXCEPT
                                         !.handled = Append(@, msg),
                                         !.channel = @ \o ChannelOps(msg.type, h_delivery.reply_to),
                                         !.acks = @ + 1,
                                         !.published = Append(@, [queue |-> queue,
                                                                  body |-> jbody])]
                            /\ workQueue' = Append(workQueue,
                                                [body |-> jbody, routing_key |-> queue,
                                                 exchange |-> <<>>,
                                                 reply_to |-> h_delivery.reply_to,
                                                 correlation_id |-> ""])
                            /\ resubmitted' = Append(resubmitted, msg.retry_count)
                            /\ Ack
                            /\ UNCHANGED errorQueue
    /\ UNCHANGED <<registered_clowder, posts, extractor_info, callbacks, post_status, consumer_infos, hpc, probe, deliveries,
                   worker, h_delivery, pc, frame, todo, disk>>

IsFinishedThreadAlive == finished /\ Len(messages) = 0

\* RabbitMQHandler.is_finished, lines 706-708.
IsFinished == pc = "exited" /\ finished /\ Len(messages) = 0

\* Lines 623-624: a finished handler is dropped.
P_Finished ==
    /\ ppc = "fin"
    /\ worker' = IF IsFinished THEN FALSE ELSE worker
    /\ ppc' = LoopTop
    /\ UNCHANGED <<registered_clowder, posts, extractor_info, callbacks, post_status, consumer_infos, hpc, probe, workQueue,
                   errorQueue, resubmitted, unacked, deliveries, h_delivery, messages,
                   finished, pc, frame, todo, disk, log>>

Worker == W_Start \/ W_Register \/ W_Check \/ W_Stage \/ W_Process \/ W_Append \/ W_Return

Poller == P_Events \/ P_Loop \/ P_Pop \/ P_Finished

Next == Worker \/ Poller

Spec == Init /\ [][Next]_vars

\* ------------------------------------- the retry chain of one message
\* A message first delivered without retry_count, to an extractor whose
\* processing ends in an IOError on every delivery.
RetryDeliveries ==
    {Delivery(WithHost(BaseBody, <<"h", "/">>), FileKey)}

InitRetry ==
    /\ InitCommon
    /\ hpc = NoBatch
    /\ extractor_info = [name |-> ExtractorName, process |-> <<"dataset", "file">>]
    /\ callbacks = "failing"
    /\ post_status = Reachable
    /\ probe = <<>>
    /\ workQueue \in {<<d>> : d \in RetryDeliveries}

SpecRetry == InitRetry /\ [][Next]_vars

\* ---------------------------------------- the resource builder on its own
NotBuilt ==
    [outcome |-> "none", raised |-> "none", resource_type |-> "none",
     resource |-> NoResource, emits |-> <<>>, calls |-> <<>>]

InitBuild ==
    /\ InitCommon
    /\ hpc = NoBatch
    /\ extractor_info \in {[name |-> ExtractorName, process |-> p] : p \in ProcessOrders}
    /\ callbacks = "any"
    /\ post_status = Reachable
    /\ workQueue = <<>>
    /\ probe \in {<<[body |-> b, out |-> NotBuilt]>> : b \in BuildBodies}

\* One call of _build_resource on the probe's body.
B_Build ==
    /\ probe # <<>>
    /\ probe[1].out.outcome = "none"
    /\ \E fetch \in Fetches :
          probe' = <<[probe[1] EXCEPT !.out = BuildResource(probe[1].body, extractor_info, fetch)]>>
    /\ UNCHANGED <<registered_clowder, posts, extractor_info, callbacks, post_status, consumer_infos, hpc, workQueue,
                   errorQueue, resubmitted, unacked, deliveries, worker, ppc, h_delivery,
                   messages, finished, pc, frame, todo, disk, log>>

NextBuild == B_Build

SpecBuild == InitBuild /\ [][NextBuild]_vars

\* ===================================================== properties of Spec
\* What the current delivery carried.
InputHost == Get(h_delivery.body, "host", <<>>)

InputRetryCount == Get(h_delivery.body, "retry_count", 0)

\* The positions of the terminal records the worker has appended.
TerminalsAppended == {i \in DOMAIN log.appended : log.appended[i].type \in Terminals}

AppendedOfType(t) == {i \in DOMAIN log.appended : log.appended[i].type = t}

\* _process_message has returned or raised and everything it emitted is appended.
ThreadDone == pc = "exited"

\* C1: every message with a non-empty host that _process_message has handled
\* has exactly one terminal record (ok, error or resubmit), unless a fatal
\* interrupt left _process_message.
C1_SingleOutcome ==
    (ThreadDone /\ InputHost # <<>> /\ frame.escaped \notin FatalKinds)
        => Cardinality(TerminalsAppended) = 1

\* C2: in the outbound queue of one message a terminal record is the last
\* record appended: every status record precedes it and nothing follows it.
C2_StatusBeforeTerminal ==
    \A i \in DOMAIN log.appended :
        log.appended[i].type \in Terminals => i = Len(log.appended)

C2_Witness ==
    /\ ThreadDone
    /\ Len(log.appended) >= 4
    /\ log.appended[Len(log.appended)].type = "resubmit"
    /\ \A i \in 1..(Len(log.appended) - 1) : log.appended[i].type = "status"

\* C3: whatever the interleaving of worker and poller, the records the poller
\* has handled followed by the records still queued are the records the worker
\* appended, in order; the poller pops only from a non-empty queue.
C3_FifoExactlyOnce ==
    /\ log.handled \o messages = log.appended
    /\ ppc = "pop" => messages # <<>>
    /\ ~log.popped_empty

C3_Witness ==
    /\ Len(log.handled) >= 2
    /\ messages # <<>>
    /\ todo # <<>>
    /\ ppc = "pop"

\* C4 as stated: every resubmit record carries the input retry_count plus 1; a
\* transient error with an input count of 10 or more appends error and no
\* resubmit, one with a count below 10 appends resubmit and no error.
C4_ResubmitIncrements ==
    /\ \A i \in AppendedOfType("resubmit") :
           log.appended[i].retry_count = InputRetryCount + 1
    /\ (ThreadDone /\ frame.raised.kind = "StandardError") =>
           IF InputRetryCount >= RetryLimit
           THEN AppendedOfType("error") # {} /\ AppendedOfType("resubmit") = {}
           ELSE AppendedOfType("resubmit") # {} /\ AppendedOfType("error") = {}

\* C4 amended: the resubmit record of a transient (standard) error carries the
\* input retry_count plus 1, the resubmit record of a fatal interrupt carries
\* the input retry_count unchanged; a transient error with an input count of 10
\* or more appends error and no resubmit, one below 10 resubmit and no error.
C4_ResubmitByKind ==
    /\ \A i \in AppendedOfType("resubmit") :
           /\ frame.raised.kind \in FatalKinds \cup {"StandardError"}
           /\ log.appended[i].retry_count =
                 IF frame.raised.kind = "StandardError"
                 THEN InputRetryCount + 1 ELSE InputRetryCount
    /\ (ThreadDone /\ frame.raised.kind = "StandardError") =>
           IF InputRetryCount >= RetryLimit
           THEN AppendedOfType("error") # {} /\ AppendedOfType("resubmit") = {}
           ELSE AppendedOfType("resubmit") # {} /\ AppendedOfType("error") = {}

C4_Witness ==
    /\ ThreadDone
    /\ frame.raised.kind = "StandardError"
    /\ InputRetryCount = RetryLimit - 1
    /\ \E i \in AppendedOfType("resubmit") : log.appended[i].retry_count = RetryLimit

\* C6: once _process_message has finished, by whatever exit path, no temporary
\* file or directory the stager created remains on disk.
C6_NoTempRemains == ThreadDone => disk = {}

\* C7: a step never leaves two registration POSTs for one host URL, whatever
\* the keys, and never removes a URL from registered_clowder.
C7_RegisterOnce ==
    [][/\ \A i, j \in DOMAIN posts' : i < j => HostUrl(posts'[i]) # HostUrl(posts'[j])
       /\ Range(registered_clowder) \subseteq Range(registered_clowder')]_vars

C7_Witness ==
    /\ deliveries = 2
    /\ ThreadDone
    /\ Len(posts) = 1
    /\ log.checked = 1
    /\ frame.secret_key = "k2"

\* C8: while the delivery at hand has no host or an empty one, nothing is
\* recorded for it (no host request, status, outcome, callback, publish or
\* ack) and no step changes the registrations, the POSTs, the queues of the
\* broker, the unacknowledged delivery or the disk.
Dropped == pc # "none" /\ InputHost = <<>>

C8_DroppedNoEffect ==
    [][Dropped =>
         /\ log = EmptyLog /\ log' = EmptyLog
         /\ messages' = <<>> /\ todo' = <<>>
         /\ unacked = <<h_delivery>>
         /\ UNCHANGED <<registered_clowder, posts, workQueue, errorQueue, resubmitted,
                        unacked, disk, finished>>]_vars

C8_Witness ==
    /\ Dropped
    /\ ThreadDone
    /\ posts # <<>>
    /\ ppc = "fin"

\* ================================================ properties of SpecRetry
\* C5: the work queue receives the message again with retry_count 1, 2, ...,
\* at most 10 times; the error queue receives it at most once, only after the
\* tenth republish, and then nothing is left to deliver; every delivery that
\* was acknowledged was republished once, so there are at most 11 deliveries.
C5_RetryChain ==
    /\ Len(resubmitted) <= RetryLimit
    /\ \A i \in DOMAIN resubmitted : resubmitted[i] = i
    /\ Len(errorQueue) <= 1
    /\ errorQueue # <<>> =>
          /\ Len(resubmitted) = RetryLimit
          /\ workQueue = <<>>
          /\ Get(errorQueue[1], "retry_count", 0) = RetryLimit
    /\ deliveries <= RetryLimit + 1
    /\ Len(resubmitted) + Len(errorQueue) = IF unacked = <<>> THEN deliveries
                                             ELSE deliveries - 1

C5_Witness ==
    /\ Len(resubmitted) = RetryLimit
    /\ Len(errorQueue) = 1
    /\ deliveries = RetryLimit + 1
    /\ workQueue = <<>>
    /\ unacked = <<>>
    /\ ~worker

\* ================================================ properties of SpecBuild
Built == probe # <<>> /\ probe[1].out.outcome # "none"

ProbeKey == probe[1].body["routing_key"]

ProbeId == Get(probe[1].body, "id", "")

ProbeDatasetId == Get(probe[1].body, "datasetId", "")

ManualKey == <<"extractors", ".">> \o extractor_info.name

C10_ResourceId ==
    (Built /\ probe[1].out.outcome = "resource") =>
        LET r == probe[1].out.resource
        IN  /\ r.type = "file" => r.id = ProbeId
            /\ r.type = "dataset" => r.id = ProbeDatasetId
            /\ r.type = "metadata" => r.id = probe[1].body["resourceId"]

C10_Witness ==
    /\ Built
    /\ probe[1].out.outcome = "resource"
    /\ probe[1].out.resource.type = "dataset"
    /\ ProbeId # ProbeDatasetId
    /\ probe[1].out.resource.id = ProbeDatasetId

\* ======================================= _check_for_local_file on its own
MaxPathLen == 3

PathTokens == {"mnt", "/", "a", "data"}

RECURSIVE Paths(_)
Paths(n) ==
    IF n = 0 THEN {<<>>}
    ELSE Paths(n - 1) \cup {Append(p, t) : p \in {q \in Paths(n - 1) : Len(q) = n - 1},
                                            t \in PathTokens}

\* The file metadata a host answers with: no filepath, or any path.
ProbeMetadata ==
    {[id |-> "f1"]} \cup {[id |-> "f1", filepath |-> p] : p \in Paths(MaxPathLen) \cup LocalFiles}

InitMount ==
    /\ InitCommon
    /\ hpc = NoBatch
    /\ extractor_info = [name |-> ExtractorName, process |-> <<"dataset", "file">>]
    /\ callbacks = "any"
    /\ post_status = Reachable
    /\ workQueue = <<>>
    /\ probe \in {<<[file_metadata |-> m, called |-> FALSE, file_path |-> <<>>]>> :
                    m \in ProbeMetadata}

\* One call of _check_for_local_file on the probe's metadata.
M_CheckForLocalFile ==
    /\ probe # <<>>
    /\ ~probe[1].called
    /\ probe' = <<[probe[1] EXCEPT !.called = TRUE,
                                   !.file_path = CheckForLocalFile(probe[1].file_metadata)]>>
    /\ UNCHANGED <<registered_clowder, posts, extractor_info, callbacks, post_status, consumer_infos, hpc, workQueue,
                   errorQueue, resubmitted, unacked, deliveries, worker, ppc, h_delivery,
                   messages, finished, pc, frame, todo, disk, log>>

NextMount == M_CheckForLocalFile

SpecMount == InitMount /\ [][NextMount]_vars

\* C11: for a filepath that is not a local file and starts with the mounted
\* source prefix, _check_for_local_file returns the mapped prefix followed by
\* the rest of the path after the leading source prefix; for an absent
\* filepath, or one that is not local and starts with no source prefix, it
\* returns none.
C11_LeadingPrefixOnly ==
    (probe # <<>> /\ probe[1].called) =>
        LET md == probe[1].file_metadata
            S == mounted_paths[1].source
            T == mounted_paths[1].local
        IN  IF ~Has(md, "filepath") THEN probe[1].file_path = <<>>
            ELSE IF md["filepath"] \in LocalFiles THEN TRUE
            ELSE IF StartsWith(md["filepath"], S)
                 THEN probe[1].file_path =
                          T \o SubSeq(md["filepath"], Len(S) + 1, Len(md["filepath"]))
                 ELSE probe[1].file_path = <<>>

\* =========================================== further properties of Spec
\* C12: once check_message has returned ignore, process_message is not called,
\* the stager is not run and creates nothing; what the worker appends after the
\* start status is the processing status "Skipped in check_message", the done
\* status and last the ok record.
C12_IgnoreSkips ==
    frame.check_result = "ignore" =>
        /\ log.processed = <<>>
        /\ log.stagings = 0
        /\ log.temps = 0
        /\ pc \in {"return", "exited"}
        /\ log.appended \o todo =
              <<StatusRec("start", frame.resource, "Started processing"),
                StatusRec("processing", frame.resource, "Skipped in check_message")>>
              \o MessageOk(frame.resource)
        /\ log.appended[Len(log.appended)].type # "ok" => todo # <<>>

C12_Witness ==
    /\ frame.check_result = "ignore"
    /\ frame.resource.type = "dataset"
    /\ ThreadDone
    /\ log.appended[Len(log.appended)].type = "ok"
    /\ log.acks = 1

\* C13: when check_message has returned bypass, for a file and for a dataset
\* resource alike, the stager is not run, process_message is called, and the
\* resource it receives has local_paths, equal to the empty sequence.
C13_BypassEmptyPaths ==
    frame.check_result = "bypass" =>
        /\ log.stagings = 0
        /\ log.temps = 0
        /\ ThreadDone => Len(log.processed) = 1
        /\ \A i \in DOMAIN log.processed :
              /\ Has(log.processed[i], "local_paths")
              /\ log.processed[i]["local_paths"] = <<>>

\* The terminal record the poller has handled, if any.
TerminalsHandled == {i \in DOMAIN log.handled : log.handled[i].type \in Terminals}

LastTwo(s) == SubSeq(s, Len(s) - 1, Len(s))

C15_OneInFlight ==
    [][deliveries' # deliveries =>
         /\ pc \in {"none", "return", "exited"}
         /\ todo = <<>>
         /\ messages = <<>>
         /\ unacked = <<>>]_vars

C15_Witness ==
    /\ deliveries = 2
    /\ pc = "process"
    /\ Len(resubmitted) = 1
    /\ workQueue = <<>>

\* ========================================================= stop and close
\* RabbitMQConnector.stop, called from another thread or a signal handler while
\* listen runs: stop_consuming cancels the consumer.
Stop ==
    /\ ppc \notin {"closing", "closed", "stopped"}
    /\ consumer_infos
    /\ consumer_infos' = FALSE
    /\ UNCHANGED <<registered_clowder, posts, extractor_info, callbacks, post_status, hpc, probe,
                   workQueue, errorQueue, resubmitted, unacked, deliveries, worker, ppc,
                   h_delivery, messages, finished, pc, frame, todo, disk, log>>

\* Lines 633-648: the finally clause of listen closes the channel and the
\* connection; listen returns.
P_Close ==
    /\ ppc = "closing"
    /\ ppc' = "closed"
    /\ UNCHANGED <<registered_clowder, posts, extractor_info, callbacks, post_status, consumer_infos, hpc,
                   probe, workQueue, errorQueue, resubmitted, unacked, deliveries, worker,
                   h_delivery, messages, finished, pc, frame, todo, disk, log>>

\* A file message for an extractor that is stopped at some point.
StopDeliveries ==
    {Delivery(WithHost(BaseBody, <<"h", "/">>), FileKey)}

InitStop ==
    /\ InitCommon
    /\ hpc = NoBatch
    /\ extractor_info = [name |-> ExtractorName, process |-> <<"dataset", "file">>]
    /\ callbacks = "any"
    /\ post_status = Reachable
    /\ probe = <<>>
    /\ workQueue \in {<<d>> : d \in StopDeliveries}

NextStop == Next \/ Stop \/ P_Close

SpecStop == InitStop /\ [][NextStop]_vars

\* C16: when listen has closed the channel and the connection after a stop,
\* the Handler that was in flight is drained: every record its worker appends
\* has been handled, the terminal record and its ack included.
C16_StopDrains ==
    (ppc = "closed" /\ h_delivery # NoDelivery) =>
        /\ messages = <<>>
        /\ todo = <<>>
        /\ pc = "exited"
        /\ log.handled = log.appended
        /\ log.acks = 1

\* ===================================================== HPCConnector.listen
MaxPickles == 3

\* What a path of the batch holds: a file that cannot be opened, one that is
\* no pickle, a pickled body without logfile, a pickled body with one.
PickleKinds == {"missing", "garbage", "nologfile", "good"}

Batches == UNION {[1..n -> PickleKinds] : n \in 1..MaxPickles}

\* What leaves open, pickle.load and body['logfile'] (lines 812-814).
LoadRaises(kind) ==
    CASE kind = "missing" -> "IOError"
      [] kind = "garbage" -> "UnpicklingError"
      [] kind = "nologfile" -> "KeyError"
      [] OTHER -> "none"

\* What leaves _process_message when a callback raises exc: nothing when an
\* except clause handles it, else the exception it lets through.
ProcessEscapes == {HandleException(e, NoResource, 0).escapes : e \in ExcValues} \cup {"none"}

InitBatch ==
    /\ InitCommon
    /\ extractor_info = [name |-> ExtractorName, process |-> <<"dataset", "file">>]
    /\ callbacks = "any"
    /\ post_status = Reachable
    /\ probe = <<>>
    /\ workQueue = <<>>
    /\ hpc \in {[NoBatch EXCEPT !.picklefile = b, !.at = "loop"] : b \in Batches}

\* Lines 810-817: one round of "for onepickle in self.picklefile".  The try has
\* only a finally clause, so whatever is raised leaves the loop and listen.
H_Pickle ==
    /\ hpc.at = "loop"
    /\ Len(hpc.loaded) < Len(hpc.picklefile)
    /\ LET i == Len(hpc.loaded) + 1
           kind == hpc.picklefile[i]
           h1 == [hpc EXCEPT !.loaded = Append(@, i)]
       IN  IF LoadRaises(kind) # "none"
           THEN hpc' = [h1 EXCEPT !.raised = LoadRaises(kind), !.at = "raised"]
           ELSE \E esc \in ProcessEscapes :
                   hpc' = [h1 EXCEPT !.processed = Append(@, i),
                                     !.raised = esc,
                                     !.at = IF esc = "none" THEN "loop" ELSE "raised"]
    /\ UNCHANGED <<registered_clowder, posts, extractor_info, callbacks, post_status, consumer_infos,
                   probe, workQueue, errorQueue, resubmitted, unacked, deliveries, worker,
                   ppc, h_delivery, messages, finished, pc, frame, todo, disk, log>>

\* The for loop is exhausted: listen returns.
H_Return ==
    /\ hpc.at = "loop"
    /\ Len(hpc.loaded) = Len(hpc.picklefile)
    /\ hpc' = [hpc EXCEPT !.at = "returned"]
    /\ UNCHANGED <<registered_clowder, posts, extractor_info, callbacks, post_status, consumer_infos,
                   probe, workQueue, errorQueue, resubmitted, unacked, deliveries, worker,
                   ppc, h_delivery, messages, finished, pc, frame, todo, disk, log>>

NextBatch == H_Pickle \/ H_Return

SpecBatch == InitBatch /\ [][NextBatch]_vars

\* C17: when listen of the batch transport is over, every path of the sequence
\* has been loaded, whatever went wrong while loading or processing an earlier
\* path, and every path that loads has been processed.
C17_BatchAdvances ==
    hpc.at \in {"returned", "raised"} =>
        /\ Len(hpc.loaded) = Len(hpc.picklefile)
        /\ \A i \in DOMAIN hpc.picklefile :
              LoadRaises(hpc.picklefile[i]) = "none" => i \in Range(hpc.processed)

\* ============================ further properties of Spec: except clauses
\* C18: a fatal interrupt raised in check_message, staging or process_message
\* appends an error status and then a resubmit with the input retry_count
\* unchanged, no error and no ok record, and leaves _process_message.
C18_FatalResubmits ==
    (ThreadDone /\ frame.raised.kind \in FatalKinds) =>
        /\ \E i \in DOMAIN log.appended :
              /\ log.appended[i].type = "status"
              /\ log.appended[i].status = "error"
        /\ \E i \in AppendedOfType("resubmit") :
              log.appended[i].retry_count = InputRetryCount
        /\ AppendedOfType("error") = {}
        /\ AppendedOfType("ok") = {}
        /\ frame.escaped = frame.raised.kind

\* C19: a subprocess failure, and any exception that is neither a fatal
\* interrupt nor a standard error, appends an error status and then the error
\* record, never a resubmit, whatever the input retry_count, and does not
\* leave _process_message.
C19_OtherErrors ==
    (ThreadDone /\ frame.raised.kind \notin FatalKinds \cup {"StandardError", "none"}) =>
        /\ \E i \in DOMAIN log.appended :
              /\ log.appended[i].type = "status"
              /\ log.appended[i].status = "error"
        /\ AppendedOfType("error") # {}
        /\ AppendedOfType("resubmit") = {}
        /\ frame.escaped = "none"

\* ================================================ the body of a resubmit
ResubmitInputs ==
    LET bodies == {WithField(WithField(WithField(WithHost(BaseBody, <<"h", "/">>), e), k), r) :
                     e \in {<<>>, <<"exchange", <<"old">> >>},
                     k \in {<<>>, <<"routing_key", FileKey>>},
                     r \in {<<>>, <<"retry_count", 4>>}}
    IN  {[d |-> [body |-> b, routing_key |-> rk, exchange |-> ex, reply_to |-> <<"reply">>],
          retry_count |-> rc] :
            b \in bodies, rk \in {<<>>, ExtractorName, DatasetKey},
            ex \in {<<>>, <<"clowder">>}, rc \in {0, 5}}

InitResubmit ==
    /\ InitCommon
    /\ hpc = NoBatch
    /\ extractor_info = [name |-> ExtractorName, process |-> <<"dataset", "file">>]
    /\ callbacks = "any"
    /\ post_status = Reachable
    /\ workQueue = <<>>
    /\ probe \in {<<[in |-> i, called |-> FALSE, jbody |-> <<>>]>> : i \in ResubmitInputs}

\* Lines 738-747 applied to the probe's delivery and record.
R_Resubmit ==
    /\ probe # <<>>
    /\ ~probe[1].called
    /\ probe' = <<[probe[1] EXCEPT
                      !.called = TRUE,
                      !.jbody = ResubmitBody(probe[1].in.d, probe[1].in.retry_count,
                                             extractor_info.name)]>>
    /\ UNCHANGED <<registered_clowder, posts, extractor_info, callbacks, post_status, consumer_infos, hpc,
                   workQueue, errorQueue, resubmitted, unacked, deliveries, worker, ppc,
                   h_delivery, messages, finished, pc, frame, todo, disk, log>>

NextResubmit == R_Resubmit

SpecResubmit == InitResubmit /\ [][NextResubmit]_vars

Resubmitted == probe # <<>> /\ probe[1].called

\* Every field of the delivered body but retry_count, exchange and routing_key
\* is in the published body unchanged, retry_count is the record's count, and
\* an exchange or routing_key the delivered body had is unchanged.
BodyKept(b, jbody, retry_count) ==
    /\ DOMAIN jbody \subseteq DOMAIN b \cup {"retry_count", "exchange", "routing_key"}
    /\ \A f \in DOMAIN b \ {"retry_count"} : Has(jbody, f) /\ jbody[f] = b[f]
    /\ Has(jbody, "retry_count") /\ jbody["retry_count"] = retry_count

\* C20 as stated: the published body is the delivered body with retry_count
\* set to the record's count; an exchange or routing_key the body lacked is
\* filled from the delivery's exchange and routing key.
C20_FilledFromDelivery ==
    Resubmitted =>
        LET d == probe[1].in.d
            jbody == probe[1].jbody
        IN  /\ BodyKept(d.body, jbody, probe[1].in.retry_count)
            /\ (~Has(d.body, "exchange") /\ d.exchange # <<>>) =>
                   Has(jbody, "exchange") /\ jbody["exchange"] = d.exchange
            /\ (~Has(d.body, "routing_key") /\ d.routing_key # <<>>) =>
                   Has(jbody, "routing_key") /\ jbody["routing_key"] = d.routing_key

\* C20 amended: an exchange the body lacked is filled from the delivery's
\* exchange when that is not empty; a routing_key the body lacked is filled
\* from the delivery's routing key when that is not empty and is not the name
\* of the work queue; otherwise the field stays absent.
C20_FilledUnlessQueue ==
    Resubmitted =>
        LET d == probe[1].in.d
            jbody == probe[1].jbody
            queue == extractor_info.name
        IN  /\ BodyKept(d.body, jbody, probe[1].in.retry_count)
            /\ ~Has(d.body, "exchange") =>
                   IF d.exchange # <<>>
                   THEN Has(jbody, "exchange") /\ jbody["exchange"] = d.exchange
                   ELSE ~Has(jbody, "exchange")
            /\ ~Has(d.body, "routing_key") =>
                   IF d.routing_key # <<>> /\ d.routing_key # queue
                   THEN Has(jbody, "routing_key") /\ jbody["routing_key"] = d.routing_key
                   ELSE ~Has(jbody, "routing_key")

C20_Witness ==
    /\ Resubmitted
    /\ ~Has(probe[1].in.d.body, "routing_key")
    /\ ~Has(probe[1].in.d.body, "exchange")
    /\ probe[1].in.d.routing_key = DatasetKey
    /\ Has(probe[1].jbody, "routing_key")
    /\ Has(probe[1].jbody, "exchange")
    /\ probe[1].jbody["retry_count"] = 5
    /\ Get(probe[1].in.d.body, "retry_count", 0) = 4

\* ============================================ _prepare_dataset on its own
StageResource == [type |-> "dataset", id |-> "d1", parent |-> ""]

NotStaged ==
    [err |-> NoExc, file_paths |-> <<>>, tmp_files |-> <<>>, tmp_dirs |-> <<>>,
     created |-> {}, calls |-> <<>>]

InitStage ==
    /\ InitCommon
    /\ hpc = NoBatch
    /\ extractor_info = [name |-> ExtractorName, process |-> <<"dataset", "file">>]
    /\ callbacks = "any"
    /\ post_status = Reachable
    /\ workQueue = <<>>
    /\ probe \in {<<[files |-> l, fail |-> c, called |-> FALSE, out |-> NotStaged]>> :
                    l \in FileLists(MaxFiles), c \in FailChoices(MaxRequests)}

\* One call of _prepare_dataset: the host lists the probe's files and the
\* probe's request, if any, raises.
S_PrepareDataset ==
    /\ probe # <<>>
    /\ ~probe[1].called
    /\ probe' = <<[probe[1] EXCEPT
                      !.called = TRUE,
                      !.out = PrepareDataset(StageResource, probe[1].files,
                                             probe[1].fail.at, probe[1].fail.exc)]>>
    /\ UNCHANGED <<registered_clowder, posts, extractor_info, callbacks, post_status, consumer_infos, hpc,
                   workQueue, errorQueue, resubmitted, unacked, deliveries, worker, ppc,
                   h_delivery, messages, finished, pc, frame, todo, disk, log>>

NextStage == S_PrepareDataset

SpecStage == InitStage /\ [][NextStage]_vars

PrepareCalled == probe # <<>> /\ probe[1].called

\* How often the stager made the request op for id.
Requests(calls, op, id) ==
    Cardinality({i \in DOMAIN calls : calls[i] = [op |-> op, id |-> id]})

NullBuilt ==
    /\ pc \in {"return", "exited"}
    /\ InputHost # <<>>
    /\ frame.resource = NoResource
    /\ frame.escaped = "none"

\* C22: when the dataset fetch of _build_resource fails, the worker appends the
\* error status of the fetch, then the error outcome and nothing else: no start
\* status, no second outcome; nothing is raised, check_message and
\* process_message are not called and the stager is not run.
C22_NullBuildStops ==
    NullBuilt =>
        LET ds == [type |-> "dataset", id |-> Get(frame.body, "datasetId", "")]
        IN  /\ log.appended \o todo =
                  <<StatusRec("error", ds, "Error downloading dataset preprocess information.")>>
                  \o MessageError(ds)
            /\ Cardinality(TerminalsAppended) <= 1
            /\ log.checked = 0
            /\ log.processed = <<>>
            /\ log.stagings = 0
            /\ log.temps = 0

C22_Witness ==
    /\ NullBuilt
    /\ ThreadDone
    /\ Cardinality(AppendedOfType("error")) = 1
    /\ log.acks = 1
    /\ Len(errorQueue) = 1

\* C23: the finished flag is set only by handling a terminal record; when
\* is_finished holds and the poller drops the Handler, the worker thread has
\* exited, every record it appended has been handled and the delivery is acked.
C23_FinishedMeansDrained ==
    [][/\ finished' => TerminalsHandled' # {}
       /\ (worker /\ ~worker') =>
             /\ IsFinished
             /\ pc = "exited"
             /\ finished
             /\ messages = <<>> /\ todo = <<>>
             /\ log.handled = log.appended
             /\ unacked = <<>>
             /\ log.acks = 1]_vars

C23_Witness ==
    /\ ~worker
    /\ deliveries = 1
    /\ pc = "exited"
    /\ finished
    /\ Len(log.handled) >= 3
    /\ ppc = "events"

\* ===================== registration by two worker threads of one process
\* Each thread runs lines 321-325 and then register_extractor (lines 442-452)
\* for its message; no lock guards registered_clowder, so the threads
\* interleave between any two of these lines.
RaceHosts == {<<"h", "/">>, <<"g", "/">>}

RaceKeys == {"k1", "k2"}

RaceThread(host, secret_key) ==
    [at |-> "line322", url |-> host \o <<"api/extractors">>,
     endpoint |-> host \o <<"api/extractors", "?key=", secret_key>>]

InitRace ==
    /\ InitCommon
    /\ hpc = NoBatch
    /\ extractor_info = [name |-> ExtractorName, process |-> <<"dataset", "file">>]
    /\ callbacks = "any"
    /\ post_status = Reachable
    /\ workQueue = <<>>
    /\ probe \in {<<RaceThread(h1, k1), RaceThread(h2, k2)>> :
                    h1 \in RaceHosts, h2 \in RaceHosts, k1 \in RaceKeys, k2 \in RaceKeys}

RaceFrame ==
    UNCHANGED <<extractor_info, callbacks, post_status, consumer_infos, hpc, workQueue, errorQueue,
                resubmitted, unacked, deliveries, worker, ppc, h_delivery, messages,
                finished, pc, frame, todo, disk, log>>

\* Line 322: if url not in Connector.registered_clowder
T_CheckUrl ==
    /\ \E t \in DOMAIN probe :
          /\ probe[t].at = "line322"
          /\ probe' = [probe EXCEPT ![t].at =
                          IF probe[t].url \notin Range(registered_clowder)
                          THEN "line323" ELSE "done"]
    /\ UNCHANGED <<registered_clowder, posts>>
    /\ RaceFrame

\* Line 323: Connector.registered_clowder.append(url)
T_AppendUrl ==
    /\ \E t \in DOMAIN probe :
          /\ probe[t].at = "line323"
          /\ registered_clowder' = Append(registered_clowder, probe[t].url)
          /\ probe' = [probe EXCEPT ![t].at = "line443"]
    /\ UNCHANGED posts
    /\ RaceFrame

\* Line 443: if url not in Connector.registered_clowder (the url with its key)
T_CheckEndpoint ==
    /\ \E t \in DOMAIN probe :
          /\ probe[t].at = "line443"
          /\ probe' = [probe EXCEPT ![t].at =
                          IF probe[t].endpoint \notin Range(registered_clowder)
                          THEN "line444" ELSE "done"]
    /\ UNCHANGED <<registered_clowder, posts>>
    /\ RaceFrame

\* Line 444: Connector.registered_clowder.append(url)
T_AppendEndpoint ==
    /\ \E t \in DOMAIN probe :
          /\ probe[t].at = "line444"
          /\ registered_clowder' = Append(registered_clowder, probe[t].endpoint)
          /\ probe' = [probe EXCEPT ![t].at = "line446"]
    /\ UNCHANGED posts
    /\ RaceFrame

\* Lines 446-449: requests.post(url, ...)
T_Post ==
    /\ \E t \in DOMAIN probe :
          /\ probe[t].at = "line446"
          /\ posts' = Append(posts, probe[t].endpoint)
          /\ probe' = [probe EXCEPT ![t].at = "done"]
    /\ UNCHANGED registered_clowder
    /\ RaceFrame

NextRace == T_CheckUrl \/ T_AppendUrl \/ T_CheckEndpoint \/ T_AppendEndpoint \/ T_Post

SpecRace == InitRace /\ [][NextRace]_vars

\* C24: whatever the interleaving of the two threads, the registration URL of
\* a host is POSTed at most once.
C24_RacePostsOnce ==
    \A i \in DOMAIN posts : \A j \in DOMAIN posts :
        i # j => HostUrl(posts[i]) # HostUrl(posts[j])

\* The registration URL of the host of the delivery being handled (line 321).
InputUrl ==
    (IF EndsWith(InputHost, <<"/">>) THEN InputHost ELSE Append(InputHost, "/"))
        \o <<"api/extractors">>

\* C25: for a message with a non-empty host, the registration URL of the host
\* is in registered_clowder before _build_resource sends any request to the
\* host and before any status or terminal record is emitted.
C25_RegisteredBeforeBuild ==
    (InputHost # <<>> /\ (log.calls # <<>> \/ log.appended # <<>> \/ todo # <<>>))
        => InputUrl \in Range(registered_clowder)

\* ================== registration when the POST to the host fails
\* Two messages of the host h, the first written without its trailing slash,
\* under every outcome of the registration POST to h.
RegisterQueue ==
    <<Delivery(WithHost(Put(BaseBody, "secretKey", "k1"), <<"h">>), FileKey),
      Delivery(WithHost(Put(BaseBody, "secretKey", "k2"), <<"h", "/">>), FileKey)>>

InitRegister ==
    /\ InitCommon
    /\ hpc = NoBatch
    /\ extractor_info = [name |-> ExtractorName, process |-> <<"dataset", "file">>]
    /\ callbacks = "any"
    /\ post_status \in {[Reachable EXCEPT ![<<"h", "/", "api/extractors">>] = r] :
                          r \in PostResults}
    /\ probe = <<>>
    /\ workQueue = RegisterQueue

SpecRegister == InitRegister /\ [][Next]_vars

\* C26: whatever the registration POST ends in, the worker leaves the
\* registration with nothing raised, the start status as its next record and
\* check_message as its next step; the URL stays in registered_clowder, so no
\* later message POSTs it again.
C26_PostFailureSwallowed ==
    [][/\ (pc = "register" /\ pc' # pc) =>
              /\ pc' = "check"
              /\ frame'.escaped = "none"
              /\ todo' = <<StatusRec("start", frame.resource, "Started processing")>>
              /\ InputUrl \in Range(registered_clowder')
       /\ Range(registered_clowder) \subseteq Range(registered_clowder')
       /\ Len(posts') <= 1]_vars

C26_Witness ==
    /\ post_status[<<"h", "/", "api/extractors">>] = "HTTPError"
    /\ posts = <<<<"h", "/", "api/extractors", "?key=", "k1">>>>
    /\ deliveries = 2
    /\ ThreadDone
    /\ AppendedOfType("ok") # {}
    /\ log.checked = 1

\* C27: a routing key that matches none of the first four rules and ends with
\* the extractor name gives dataset whenever extractor_info['process'] has the
\* key dataset, in whatever order its keys are iterated, and file otherwise.
C27_ProcessNamesDataset ==
    (/\ Built
     /\ ~Contains(ProbeKey, DatasetPat)
     /\ ~Contains(ProbeKey, FilePat)
     /\ ~Contains(ProbeKey, MetadataPat)
     /\ ProbeKey # ManualKey
     /\ EndsWith(ProbeKey, extractor_info.name))
        => probe[1].out.resource_type =
              (IF "dataset" \in Range(extractor_info.process) THEN "dataset" ELSE "file")

\* C28: for a metadata resource the stager is not run, whatever check_message
\* returns: no file list, file, metadata or zip is requested of the host and no
\* temporary file or directory is created before process_message.
C28_MetadataNotStaged ==
    (pc # "none" /\ frame.resource.type = "metadata")
        => /\ log.stagings = 0
           /\ log.temps = 0
           /\ log.calls = <<>>
           /\ disk = {}

\* ============================ status records and the header of the delivery
\* One file message, delivered with and without a reply_to header and under
\* two correlation ids.
ReplyDeliveries ==
    {[Delivery(WithHost(BaseBody, <<"h", "/">>), FileKey)
         EXCEPT !.reply_to = r, !.correlation_id = c] :
       r \in {<<>>, <<"reply">>}, c \in {"c1", "c2"}}

InitReply ==
    /\ InitCommon
    /\ hpc = NoBatch
    /\ extractor_info = [name |-> ExtractorName, process |-> <<"dataset", "file">>]
    /\ callbacks = "any"
    /\ post_status = Reachable
    /\ probe = <<>>
    /\ workQueue \in {<<d>> : d \in ReplyDeliveries}

SpecReply == InitReply /\ [][Next]_vars

\* The poller handles a status record in this step.
HandlesStatus ==
    /\ Len(log'.handled) = Len(log.handled) + 1
    /\ log'.handled[Len(log'.handled)].type = "status"

\* C29: handling a status record publishes it to the queue reply_to names, with
\* the correlation_id of the delivery, exactly when the delivery has a
\* reply_to header; without one nothing is published.  Handling a status
\* never acks the delivery and never sets finished.
C29_StatusReply ==
    [][HandlesStatus =>
         LET msg == log'.handled[Len(log'.handled)] IN
         /\ h_delivery.reply_to # <<>> =>
               /\ log'.published =
                     Append(log.published,
                            [queue |-> h_delivery.reply_to,
                             correlation_id |-> h_delivery.correlation_id,
                             body |-> msg])
               /\ log'.channel = Append(log.channel, "basic_publish")
         /\ h_delivery.reply_to = <<>> =>
               /\ log'.published = log.published
               /\ log'.channel = log.channel
         /\ log'.acks = log.acks
         /\ UNCHANGED <<unacked, finished, workQueue, errorQueue>>]_vars

C29_Witness ==
    /\ h_delivery.reply_to = <<"reply">>
    /\ h_delivery.correlation_id = "c2"
    /\ Len(log.published) = 2
    /\ log.published[2].correlation_id = "c2"
    /\ log.published[2].body.type = "status"
    /\ log.acks = 0
    /\ ~finished

C29_NoReplyReached ==
    /\ h_delivery.reply_to = <<>>
    /\ Len(log.handled) = 2
    /\ log.published = <<>>

\* ======================== the receive loop under fair scheduling
\* The worker thread and the receive loop both keep being scheduled.  The
\* deliveries: a file message, a message with an empty host, one without a
\* host, and one whose body and delivery carry no routing key, so that
\* _build_resource raises KeyError.
LiveDeliveries ==
    {Delivery(WithHost(BaseBody, <<"h", "/">>), FileKey),
     Delivery(WithHost(BaseBody, <<>>), FileKey),
     Delivery(BaseBody, FileKey),
     Delivery(WithHost(BaseBody, <<"h", "/">>), <<>>)}

InitLive ==
    /\ InitCommon
    /\ hpc = NoBatch
    /\ extractor_info = [name |-> ExtractorName, process |-> <<"dataset", "file">>]
    /\ callbacks = "any"
    /\ post_status = Reachable
    /\ probe = <<>>
    /\ workQueue \in {<<d>> : d \in LiveDeliveries}

SpecLive == InitLive /\ [][Next]_vars /\ WF_vars(Worker) /\ WF_vars(Poller)

\* C30: once the worker thread of a delivery has terminated, on whatever path,
\* the delivery is eventually acked and the connector eventually discards the
\* Handler, provided the receive loop keeps polling.
C30_EventuallyDiscarded ==
    (worker /\ pc = "exited") ~> (~worker /\ unacked = <<>>)

\* C31: the cleanup never removes a path _check_for_local_file returned.  For
\* a file resource resolved locally nothing is removed, whether
\* process_message returns or raises; for a dataset only temporary paths (the
\* downloaded files, the metadata documents and their directories) are
\* removed, never a locally resolved file.
C31_LocalPathsKept ==
    pc # "none" =>
        /\ log.removed \cap log.resolved = {}
        /\ \A p \in log.removed : p[1] = "tmp"
        /\ (frame.resource.type = "file" /\ log.resolved # {}) => log.removed = {}

C31_Witness ==
    /\ ThreadDone
    /\ frame.resource.type = "dataset"
    /\ log.resolved = {<<"loc", "/", "b">>}
    /\ DlFile("f3") \in log.removed
    /\ MdFile("f2") \in log.removed
    /\ Len(log.processed) = 1
    /\ frame.raised # NoExc

C31_FileWitness ==
    /\ ThreadDone
    /\ frame.resource.type = "file"
    /\ log.resolved # {}
    /\ Len(log.processed) = 1
    /\ frame.raised # NoExc

\* ============================== how RabbitMQConnector.listen ends
\* listen from line 617 on, after connect and basic_consume: the rounds of the
\* receive loop reduced to how each one ends, then the except clauses and the
\* finally clause.  None is written "none"; raised is the exception on its way
\* out of listen and raised_in the place it was raised.
MaxRounds == 3

\* BaseException subclasses that "except Exception" does not catch.
Interrupts == {"SystemExit", "KeyboardInterrupt"}

\* How one round of the loop (lines 619-624) ends: the next round, the loop
\* condition failing, or something raised inside the round.
RoundOutcomes == {"continue", "cancelled", "Exception", "GeneratorExit"} \cup Interrupts

\* What channel.close() and connection.close() end in.
CloseOutcomes == {"ok", "Exception"} \cup Interrupts

Listening ==
    [at |-> "loop", channel |-> "open", connection |-> "open", rounds |-> 0,
     raised |-> "none", raised_in |-> "none", logged |-> <<>>]

InitListen ==
    /\ InitCommon
    /\ hpc = NoBatch
    /\ extractor_info = [name |-> ExtractorName, process |-> <<"dataset", "file">>]
    /\ callbacks = "any"
    /\ post_status = Reachable
    /\ workQueue = <<>>
    /\ probe = <<Listening>>

ListenFrame ==
    UNCHANGED <<registered_clowder, posts, extractor_info, callbacks, post_status,
                consumer_infos, hpc, workQueue, errorQueue, resubmitted, unacked, deliveries,
                worker, ppc, h_delivery, messages, finished, pc, frame, todo, disk, log>>

\* Lines 617-632: one round of the loop, or the loop left.  SystemExit,
\* KeyboardInterrupt and GeneratorExit are re-raised, any other exception is
\* logged; the finally clause is next in every case.
L_Round ==
    /\ probe[1].at = "loop"
    /\ \E o \in RoundOutcomes :
          CASE o = "continue" ->
                 /\ probe[1].rounds < MaxRounds
                 /\ probe' = <<[probe[1] EXCEPT !.rounds = @ + 1]>>
            [] o = "cancelled" ->
                 probe' = <<[probe[1] EXCEPT !.at = "finally"]>>
            [] o = "Exception" ->
                 probe' = <<[probe[1] EXCEPT
                               !.at = "finally",
                               !.logged = Append(@, "Error while consuming messages.")]>>
            [] OTHER ->
                 probe' = <<[probe[1] EXCEPT
                               !.at = "finally", !.raised = o, !.raised_in = "loop"]>>
    /\ ListenFrame

\* Lines 633-640: the channel is closed; "except Exception" logs a close error,
\* the inner finally sets self.channel to None.  An exception that is not an
\* Exception leaves the outer finally clause at once.
L_CloseChannel ==
    /\ probe[1].at = "finally"
    /\ \E o \in CloseOutcomes :
          CASE o = "ok" ->
                 probe' = <<[probe[1] EXCEPT !.at = "connection", !.channel = "none"]>>
            [] o = "Exception" ->
                 probe' = <<[probe[1] EXCEPT
                               !.at = "connection", !.channel = "none",
                               !.logged = Append(@, "Error while closing channel.")]>>
            [] OTHER ->
                 probe' = <<[probe[1] EXCEPT
                               !.at = "ended", !.channel = "none",
                               !.raised = o, !.raised_in = "close"]>>
    /\ ListenFrame

\* Lines 641-648: the same for the connection; listen returns, or the
\* exception on its way out leaves listen.
L_CloseConnection ==
    /\ probe[1].at = "connection"
    /\ \E o \in CloseOutcomes :
          CASE o = "ok" ->
                 probe' = <<[probe[1] EXCEPT !.at = "ended", !.connection = "none"]>>
            [] o = "Exception" ->
                 probe' = <<[probe[1] EXCEPT
                               !.at = "ended", !.connection = "none",
                               !.logged = Append(@, "Error while closing connection.")]>>
            [] OTHER ->
                 probe' = <<[probe[1] EXCEPT
                               !.at = "ended", !.connection = "none",
                               !.raised = o, !.raised_in = "close"]>>
    /\ ListenFrame

NextListen == L_Round \/ L_CloseChannel \/ L_CloseConnection

SpecListen == InitListen /\ [][NextListen]_vars

\* RabbitMQConnector.alive, lines 655-656.
Alive(connector) == connector.connection # "none"

ListenEnded == probe # <<>> /\ probe[1].at = "ended"

\* C32: however listen ends, and whatever closing the channel or the
\* connection raises, the channel and the connection are both released, alive()
\* is false afterwards, and nothing raised by a close leaves listen.
C32_ListenReleases ==
    ListenEnded =>
        /\ probe[1].channel = "none"
        /\ probe[1].connection = "none"
        /\ ~Alive(probe[1])
        /\ probe[1].raised_in # "close"

\* The same with every close either returning or raising an Exception.
ListenReleasesOnCloseErrors ==
    (ListenEnded /\ probe[1].raised_in # "close") =>
        /\ probe[1].channel = "none"
        /\ ~Alive(probe[1])
====
